---- MODULE Spec2Model ----
(***************************************************************************)
(* Model of the two plotting pipelines of the repository:                  *)
(*   src/TASK_1.py     2D profile of the central girder (a script)         *)
(*   src/3D_task_2.py  3D ribbon diagram (create_enhanced_3d_diagram, main)*)
(*                                                                         *)
(* Python floats are IEEE 754 binary64 numbers.  A float is modelled by    *)
(* its exact value  s * m * 2^e  (sign s, odd natural m below 2^53, or     *)
(* m = 0), and every arithmetic operation by the exact result rounded to   *)
(* 53 significant bits, ties to even.  m is a natural number written in    *)
(* base 2^15, least significant limb first, because a significand does not *)
(* fit the integers of the model checker.  Overflow, subnormals, NaN and   *)
(* the sign of zero are outside the model: inputs are finite and moderate. *)
(***************************************************************************)
EXTENDS Integers, Sequences, FiniteSets, TLC

(***************************************************************************)
(* Natural numbers of any size: sequences of limbs, no high zero limb.     *)
(***************************************************************************)
LimbBits == 15

LimbBase == 2^LimbBits

MantBits == 53

RECURSIVE BNorm(_)
BNorm(x) ==
  IF x = <<>> THEN <<>>
  ELSE IF x[Len(x)] = 0 THEN BNorm(SubSeq(x, 1, Len(x) - 1)) ELSE x

RECURSIVE BFromInt(_)
BFromInt(n) ==
  IF n = 0 THEN <<>> ELSE <<n % LimbBase>> \o BFromInt(n \div LimbBase)

RECURSIVE BAddC(_, _, _)
BAddC(x, y, c) ==
  IF x = <<>> /\ y = <<>> THEN (IF c = 0 THEN <<>> ELSE <<c>>)
  ELSE LET a == IF x = <<>> THEN 0 ELSE Head(x)
           b == IF y = <<>> THEN 0 ELSE Head(y)
           s == a + b + c
       IN <<s % LimbBase>>
            \o BAddC(IF x = <<>> THEN <<>> ELSE Tail(x),
                     IF y = <<>> THEN <<>> ELSE Tail(y),
                     s \div LimbBase)

BAdd(x, y) == BAddC(x, y, 0)

\* x - y for x >= y, limb by limb with a borrow.
RECURSIVE BSubB(_, _, _)
BSubB(x, y, b) ==
  IF x = <<>> THEN <<>>
  ELSE LET d == Head(x) - (IF y = <<>> THEN 0 ELSE Head(y)) - b
       IN <<IF d < 0 THEN d + LimbBase ELSE d>>
            \o BSubB(Tail(x), IF y = <<>> THEN <<>> ELSE Tail(y),
                     IF d < 0 THEN 1 ELSE 0)

BSub(x, y) == BNorm(BSubB(x, y, 0))

\* -1, 0, 1 as x < y, x = y, x > y.
RECURSIVE BCmpTop(_, _, _)
BCmpTop(x, y, k) ==
  IF k = 0 THEN 0
  ELSE IF x[k] < y[k] THEN -1
  ELSE IF x[k] > y[k] THEN 1
  ELSE BCmpTop(x, y, k - 1)

BCmp(x, y) ==
  IF Len(x) < Len(y) THEN -1
  ELSE IF Len(x) > Len(y) THEN 1
  ELSE BCmpTop(x, y, Len(x))

\* x * d + c for a limb d.
RECURSIVE BMulSmallC(_, _, _)
BMulSmallC(x, d, c) ==
  IF x = <<>> THEN (IF c = 0 THEN <<>> ELSE <<c>>)
  ELSE LET p == Head(x) * d + c
       IN <<p % LimbBase>> \o BMulSmallC(Tail(x), d, p \div LimbBase)

BMulSmall(x, d) == IF d = 0 THEN <<>> ELSE BMulSmallC(x, d, 0)

BShiftLimb(x) == IF x = <<>> THEN <<>> ELSE <<0>> \o x

RECURSIVE BMul(_, _)
BMul(x, y) ==
  IF y = <<>> \/ x = <<>> THEN <<>>
  ELSE BAdd(BMulSmall(x, Head(y)), BShiftLimb(BMul(x, Tail(y))))

RECURSIVE BShiftLimbs(_, _)
BShiftLimbs(x, n) == IF n = 0 THEN x ELSE BShiftLimbs(BShiftLimb(x), n - 1)

\* x * 2^n
BShl(x, n) == BShiftLimbs(BMulSmall(x, 2^(n % LimbBits)), n \div LimbBits)

\* floor(x / d) for a limb d > 0, from the high limb down; r is the remainder so far.
RECURSIVE BDivSmallR(_, _, _, _)
BDivSmallR(x, d, k, r) ==
  IF k = 0 THEN <<>>
  ELSE LET v == r * LimbBase + x[k]
       IN BDivSmallR(x, d, k - 1, v % d) \o <<v \div d>>

BDivSmall(x, d) == BNorm(BDivSmallR(x, d, Len(x), 0))

\* floor(x / 2^n)
BShr(x, n) ==
  LET drop == n \div LimbBits
  IN IF drop >= Len(x) THEN <<>>
     ELSE BDivSmall(SubSeq(x, drop + 1, Len(x)), 2^(n % LimbBits))

RECURSIVE BitLenSmall(_)
BitLenSmall(n) == IF n = 0 THEN 0 ELSE 1 + BitLenSmall(n \div 2)

BitLen(x) ==
  IF x = <<>> THEN 0 ELSE LimbBits * (Len(x) - 1) + BitLenSmall(x[Len(x)])

BBit(x, k) ==
  IF k \div LimbBits >= Len(x) THEN 0
  ELSE (x[k \div LimbBits + 1] \div 2^(k % LimbBits)) % 2

BIsOdd(x) == x # <<>> /\ x[1] % 2 = 1

RECURSIVE TrailingZerosSmall(_)
TrailingZerosSmall(n) == IF n % 2 = 1 THEN 0 ELSE 1 + TrailingZerosSmall(n \div 2)

RECURSIVE BTrailingZeros(_)
BTrailingZeros(x) ==
  IF Head(x) = 0 THEN LimbBits + BTrailingZeros(Tail(x))
  ELSE TrailingZerosSmall(Head(x))

\* The largest limb d with d * y <= r, for r < y * LimbBase: its bits from the top.
RECURSIVE BQuotDigit(_, _, _, _)
BQuotDigit(r, y, bit, d) ==
  IF bit < 0 THEN d
  ELSE IF BCmp(BMulSmall(y, d + 2^bit), r) <= 0
       THEN BQuotDigit(r, y, bit - 1, d + 2^bit)
       ELSE BQuotDigit(r, y, bit - 1, d)

\* Long division of the limbs k.. of x by y > 0: <<quotient, remainder>>.
RECURSIVE BDivModFrom(_, _, _)
BDivModFrom(x, y, k) ==
  IF k > Len(x) THEN <<<<>>, <<>>>>
  ELSE LET p == BDivModFrom(x, y, k + 1)
           r == BNorm(<<x[k]>> \o p[2])
           d == BQuotDigit(r, y, LimbBits - 1, 0)
       IN <<BNorm(<<d>> \o p[1]), BSub(r, BMulSmall(y, d))>>

BDivMod(x, y) == BDivModFrom(x, y, 1)

(***************************************************************************)
(* binary64 values and operations.                                         *)
(***************************************************************************)
FZero == [s |-> 1, m |-> <<>>, e |-> 0]

\* The float of value s * M * 2^e for M below 2^53, in lowest terms (m odd).
MkFloat(s, M, e) ==
  IF M = <<>> THEN FZero
  ELSE LET tz == BTrailingZeros(M)
       IN [s |-> s, m |-> BShr(M, tz), e |-> e + tz]

\* s * M * 2^e rounded to 53 significant bits, ties to even.
Round53(s, M, e) ==
  LET L == BitLen(M)
  IN IF L <= MantBits THEN MkFloat(s, M, e)
     ELSE LET sh == L - MantBits
              Q == BShr(M, sh)
              R == BSub(M, BShl(Q, sh))
              c == BCmp(R, BShl(<<1>>, sh - 1))
              up == c > 0 \/ (c = 0 /\ BIsOdd(Q))
          IN MkFloat(s, IF up THEN BAdd(Q, <<1>>) ELSE Q, e + sh)

FromInt(n) == IF n < 0 THEN MkFloat(-1, BFromInt(-n), 0) ELSE MkFloat(1, BFromInt(n), 0)

FIsZero(a) == a.m = <<>>

FNeg(a) == IF FIsZero(a) THEN a ELSE [a EXCEPT !.s = -a.s]

FAbs(a) == [a EXCEPT !.s = 1]

FAdd(a, b) ==
  IF FIsZero(a) THEN b
  ELSE IF FIsZero(b) THEN a
  ELSE LET e == IF a.e < b.e THEN a.e ELSE b.e
           Ma == BShl(a.m, a.e - e)
           Mb == BShl(b.m, b.e - e)
           c == BCmp(Ma, Mb)
       IN IF a.s = b.s THEN Round53(a.s, BAdd(Ma, Mb), e)
          ELSE IF c = 0 THEN FZero
          ELSE IF c > 0 THEN Round53(a.s, BSub(Ma, Mb), e)
          ELSE Round53(b.s, BSub(Mb, Ma), e)

FSub(a, b) == FAdd(a, FNeg(b))

FMul(a, b) ==
  IF FIsZero(a) \/ FIsZero(b) THEN FZero
  ELSE Round53(a.s * b.s, BMul(a.m, b.m), a.e + b.e)

\* a / b for b # 0: at least 55 quotient bits and a sticky bit, then rounded.
FDiv(a, b) ==
  IF FIsZero(a) THEN FZero
  ELSE LET need == MantBits + 2 + BitLen(b.m) - BitLen(a.m)
           k == IF need > 0 THEN need ELSE 0
           qr == BDivMod(BShl(a.m, k), b.m)
           M == BAddC(qr[1], qr[1], IF qr[2] = <<>> THEN 0 ELSE 1)
       IN Round53(a.s * b.s, M, a.e - b.e - k - 1)

\* -1, 0, 1 as a < b, a = b, a > b.
FCmp(a, b) ==
  LET d == FSub(a, b) IN IF FIsZero(d) THEN 0 ELSE d.s

FLe(a, b) == FCmp(a, b) <= 0

FLt(a, b) == FCmp(a, b) < 0

\* The float a decimal literal n / 10^k denotes (the nearest binary64).
Dec(n, k) == FDiv(FromInt(n), FromInt(10^k))

\* max(...) and min(...) of a non-empty list of floats, as Python scans it.
RECURSIVE FMaxSeq(_)
FMaxSeq(vs) ==
  IF Len(vs) = 1 THEN vs[1]
  ELSE LET r == FMaxSeq(SubSeq(vs, 1, Len(vs) - 1))
       IN IF FLt(r, vs[Len(vs)]) THEN vs[Len(vs)] ELSE r

RECURSIVE FMinSeq(_)
FMinSeq(vs) ==
  IF Len(vs) = 1 THEN vs[1]
  ELSE LET r == FMinSeq(SubSeq(vs, 1, Len(vs) - 1))
       IN IF FLt(vs[Len(vs)], r) THEN vs[Len(vs)] ELSE r

(***************************************************************************)
(* Input data: geometry tables and the results dataset.                    *)
(***************************************************************************)
\* Bounds of the model.
MaxChain == 4

MaxSegments == 2

MaxElems == 2

\* TASK_1.py: central_elements; 3D_task_2.py: girders.
central_elements_all == <<15, 24, 33, 42, 51, 60, 69, 78, 83>>

GirderNames == <<"Girder 1", "Girder 2", "Girder 3", "Girder 4", "Girder 5">>

Other == "Other Elements"

girders ==
  [g \in {GirderNames[n] : n \in 1..5} |->
     LET n == CHOOSE n \in 1..5 : GirderNames[n] = g
     IN [elements |-> <<12 + n, 21 + n, 30 + n, 39 + n, 48 + n,
                        57 + n, 66 + n, 75 + n, 80 + n>>,
         nodes |-> <<n, 10 + n, 15 + n, 20 + n, 25 + n,
                     30 + n, 35 + n, 40 + n, 45 + n, 5 + n>>]]

Components == {"Mz_i", "Mz_j", "Vy_i", "Vy_j"}

ElemIds == 1..85

NodeIds == 1..50

\* Value tables of the results dataset ds['forces'], one per data set vs:
\* <<Mz_i, Mz_j, Vy_i, Vy_j>> of element e.
ValueSets == {"ramp", "decimal", "zero"}

ForceRow(vs, e) ==
  CASE vs = "ramp" ->
         (CASE e = 15 -> <<FromInt(100), FromInt(-50), FromInt(30), FromInt(-10)>>
            [] e = 24 -> <<FromInt(-50), FromInt(-120), FromInt(-10), FromInt(-45)>>
            [] OTHER  -> <<FromInt(e), FromInt(-2 * e), FromInt(3 * e), FromInt(e + 7)>>)
    [] vs = "decimal" ->
         (CASE e = 15 -> <<Dec(78275, 3), FNeg(Dec(308041, 3)), Dec(1, 1), Dec(3, 1)>>
            [] e = 24 -> <<FNeg(Dec(308041, 3)), Dec(12, 1), Dec(3, 1), FNeg(Dec(25, 2))>>
            [] OTHER  -> <<Dec(e, 1), Dec(7 * e, 2), FNeg(Dec(e, 2)), Dec(e + 1, 1)>>)
    [] OTHER -> <<FZero, FZero, FZero, FZero>>

ForceTable == [vs \in ValueSets |-> [e \in ElemIds |-> ForceRow(vs, e)]]

CompIndex(c) ==
  CASE c = "Mz_i" -> 1 [] c = "Mz_j" -> 2 [] c = "Vy_i" -> 3 [] c = "Vy_j" -> 4

\* ds['forces'].sel(Element=e, Component=c): a KeyError when the label is absent.
SelRaises(d, e, c) == e \notin d.elements \/ c \notin d.components

Sel(d, e, c) == ForceTable[d.vs][e][CompIndex(c)]

\* node.py: nodes of girder g at station k (0..9): x along the girder, z across.
NodeCoord(id) ==
  LET g == ((id - 1) % 5) + 1
      k == IF id <= 5 THEN 0 ELSE IF id <= 10 THEN 9 ELSE (id - 6) \div 5
  IN <<FromInt(5 * k), Dec(15, 1), Dec(25 * (g - 1), 1)>>

NodeTable == [id \in NodeIds |-> NodeCoord(id)]

\* members as an ordered table of <<element id, node_i, node_j>>.
HasMember(ms, e) == \E n \in 1..Len(ms) : ms[n][1] = e

MemberOf(ms, e) ==
  LET n == CHOOSE n \in 1..Len(ms) : ms[n][1] = e IN <<ms[n][2], ms[n][3]>>

(***************************************************************************)
(* State.                                                                  *)
(***************************************************************************)
VARIABLES
  central_elements,  \* TASK_1.py: the chain of the central girder
  members,           \* element.py: ordered <<eid, ni, nj>>
  nodes,             \* node.py: node id -> <<x, y, z>>
  ds,                \* screening_task.nc: [elements, components, vs]
  pc,                \* TASK_1.py: where the script is
  idx,               \* TASK_1.py: loop index (1-based)
  console,           \* TASK_1.py: what was printed
  positions, bending_moments, shear_forces,
  profile,           \* TASK_1.py: the three numpy arrays, once made
  plotted,           \* TASK_1.py: plt.show() reached
  files,             \* 3D_task_2.py: the input files that exist
  segments,          \* create_enhanced_3d_diagram: segments
  mpc,               \* main: where it is
  result_type,       \* create_enhanced_3d_diagram: 'BMD' or 'SFD'
  phase,             \* create_enhanced_3d_diagram: where it is
  cur,               \* create_enhanced_3d_diagram: place in members (1-based)
  all_values, max_val, scale,
  fig,               \* fig.data: the traces added so far
  girder_traces,     \* group name -> trace indices (0-based)
  shown_in_legend, element_count,
  buttons,           \* the visibility buttons
  exported, shown,   \* main: html files written, figures shown
  log                \* 3D_task_2.py: what was printed

inputs == <<central_elements, members, nodes, ds, files, segments>>

vars2D == <<pc, idx, console, positions, bending_moments, shear_forces, profile, plotted>>

locals3D == <<all_values, max_val, scale, fig, girder_traces, shown_in_legend,
              element_count, buttons>>

vars3D == <<mpc, result_type, phase, cur, locals3D, exported, shown, log>>

vars == <<inputs, vars2D, vars3D>>

\* Before lines 86-88 the arrays do not exist.
NoProfile ==
  [made |-> FALSE, positions |-> <<>>, bending_moments |-> <<>>, shear_forces |-> <<>>]

\* TASK_1.py, lines 11-51: the state at the first pass of the continuity
\* loop; line 25 has printed the component names.
Start2D ==
  /\ pc = "continuity"
  /\ idx = 1
  /\ console = <<[kind |-> "components", names |-> ds.components]>>
  /\ positions = <<>>
  /\ bending_moments = <<>>
  /\ shear_forces = <<>>
  /\ profile = NoProfile
  /\ plotted = FALSE

\* TASK_1.py is not run.
NotRun2D ==
  /\ pc = "notrun"
  /\ idx = 1
  /\ console = <<>>
  /\ positions = <<>>
  /\ bending_moments = <<>>
  /\ shear_forces = <<>>
  /\ profile = NoProfile
  /\ plotted = FALSE

Start3D ==
  /\ mpc = "check"
  /\ result_type = "BMD"
  /\ phase = "idle"
  /\ cur = 1
  /\ all_values = <<>>
  /\ max_val = FZero
  /\ scale = FZero
  /\ fig = <<>>
  /\ girder_traces = <<>>
  /\ shown_in_legend = {}
  /\ element_count = 0
  /\ buttons = <<>>
  /\ exported = {}
  /\ shown = <<>>
  /\ log = <<>>

(***************************************************************************)
(* TASK_1.py                                                               *)
(***************************************************************************)
\* The chain's element at place k joins stations k-1 and k of Girder 3;
\* a flipped element is listed with its end nodes swapped.
ChainMembers(n, flipped) ==
  [j \in 1..n |->
     LET a == girders["Girder 3"].nodes[j]
         b == girders["Girder 3"].nodes[j + 1]
     IN IF j \in flipped THEN <<central_elements_all[j], b, a>>
        ELSE <<central_elements_all[j], a, b>>]

ChainNodes(n) == {girders["Girder 3"].nodes[j] : j \in 1..(n + 1)}

Datasets(elems) ==
  {[elements |-> elems \ miss, components |-> Components \ cmiss, vs |-> v] :
     miss \in {{}} \cup {{e} : e \in elems},
     cmiss \in {{}, {"Vy_j"}},
     v \in ValueSets}

Init2D ==
  /\ \E n \in 1..MaxChain, flipped \in SUBSET (1..MaxChain) :
       /\ flipped \subseteq 1..n
       /\ central_elements = SubSeq(central_elements_all, 1, n)
       /\ members = ChainMembers(n, flipped)
       /\ nodes = [id \in ChainNodes(n) |-> NodeTable[id]]
       /\ ds \in Datasets({central_elements_all[j] : j \in 1..n})
       /\ files = {}
       /\ segments = 1
  /\ Start2D
  /\ Start3D

\* A loop that compared node_i with the previous node_i instead.
ContinuityMismatchSameEnd(ms, chain, i) ==
  i > 1 /\ MemberOf(ms, chain[i])[1] # MemberOf(ms, chain[i - 1])[1]

\* Lines 37-39: ni != prev_nj, from the second element on.
ContinuityMismatch(ms, chain, i) ==
  i > 1 /\ MemberOf(ms, chain[i])[1] # MemberOf(ms, chain[i - 1])[2]

\* Lines 36-41: one pass of the continuity loop.
ContinuityStep ==
  /\ pc = "continuity"
  /\ idx <= Len(central_elements)
  /\ console' = IF ContinuityMismatch(members, central_elements, idx)
                THEN Append(console, [kind |-> "warning", ele |-> central_elements[idx]])
                ELSE console
  /\ idx' = idx + 1
  /\ UNCHANGED <<inputs, vars3D, pc, positions, bending_moments, shear_forces, profile, plotted>>

\* Line 43 and lines 49-53: the loop is over, extraction starts.
ContinuityDone ==
  /\ pc = "continuity"
  /\ idx > Len(central_elements)
  /\ console' = Append(console, [kind |-> "verified"])
  /\ pc' = "extract"
  /\ idx' = 1
  /\ positions' = <<>>
  /\ bending_moments' = <<>>
  /\ shear_forces' = <<>>
  /\ UNCHANGED <<inputs, vars3D, profile, plotted>>

\* A try block that guarded the first lookup only.
ExtractRaisesFirstOnly(d, ele) == SelRaises(d, ele, "Mz_i")

\* Lines 67-75: one of the four lookups raises KeyError.
ExtractRaises(d, ele) ==
  \E c \in {"Mz_i", "Mz_j", "Vy_i", "Vy_j"} : SelRaises(d, ele, c)

\* A loop that added both ends of every element.
EmittedBoth(i, val_i, val_j) == <<val_i, val_j>>

\* Lines 77-84: what one element adds to a list (i is 1-based).
Emitted(i, val_i, val_j) == IF i = 1 THEN <<val_i, val_j>> ELSE <<val_j>>

\* Lines 55-84: one pass of the extraction loop.
ExtractStep ==
  /\ pc = "extract"
  /\ idx <= Len(central_elements)
  /\ LET ele == central_elements[idx]
         node_i == MemberOf(members, ele)[1]
         node_j == MemberOf(members, ele)[2]
         pos_i == nodes[node_i][1]
         pos_j == nodes[node_j][1]
     IN IF ExtractRaises(ds, ele)
        THEN \* except KeyError: two prints, then raise
             /\ console' = console \o <<[kind |-> "error", ele |-> ele],
                                        [kind |-> "components", names |-> ds.components]>>
             /\ pc' = "aborted"
             /\ UNCHANGED <<idx, positions, bending_moments, shear_forces>>
        ELSE /\ positions' = positions \o Emitted(idx, pos_i, pos_j)
             /\ bending_moments' =
                  bending_moments \o Emitted(idx, Sel(ds, ele, "Mz_i"), Sel(ds, ele, "Mz_j"))
             /\ shear_forces' =
                  shear_forces \o Emitted(idx, Sel(ds, ele, "Vy_i"), Sel(ds, ele, "Vy_j"))
             /\ idx' = idx + 1
             /\ UNCHANGED <<pc, console>>
  /\ UNCHANGED <<inputs, vars3D, profile, plotted>>

\* Lines 86-91: the lists become arrays.
ToArrays ==
  /\ pc = "extract"
  /\ idx > Len(central_elements)
  /\ profile' = [made |-> TRUE, positions |-> positions, bending_moments |-> bending_moments,
                 shear_forces |-> shear_forces]
  /\ console' = console \o <<[kind |-> "completed"],
                             [kind |-> "points", n |-> Len(positions)]>>
  /\ pc' = "plot"
  /\ UNCHANGED <<inputs, vars3D, idx, positions, bending_moments, shear_forces, plotted>>

\* Lines 99-173: the two diagrams are drawn from the arrays and shown.
Plot ==
  /\ pc = "plot"
  /\ plotted' = TRUE
  /\ pc' = "done"
  /\ UNCHANGED <<inputs, vars3D, idx, console, positions, bending_moments, shear_forces, profile>>

Next2D == ContinuityStep \/ ContinuityDone \/ ExtractStep \/ ToArrays \/ Plot

Spec2D == Init2D /\ [][Next2D]_vars

(***************************************************************************)
(* 3D_task_2.py                                                            *)
(***************************************************************************)
\* main, lines 483-485: the three input files, in the order checked.
RequiredFiles == <<"./screening_task.nc", "./node.py", "./element.py">>

\* element.py rows the model's member tables are made of: two elements of
\* Girder 3, a transverse element and one of Girder 1.
ElemPool == <<<<15, 3, 13>>, <<1, 3, 4>>, <<24, 13, 18>>, <<13, 1, 11>>>>

RECURSIVE PickRows(_, _)
PickRows(rows, n) ==
  IF n > Len(ElemPool) THEN <<>>
  ELSE (IF n \in rows THEN <<ElemPool[n]>> ELSE <<>>) \o PickRows(rows, n + 1)

MemberTables ==
  {PickRows(rows, 1) : rows \in {r \in SUBSET (1..Len(ElemPool)) :
                                   Cardinality(r) \in 1..MaxElems}}

MemberIds(ms) == {ms[n][1] : n \in 1..Len(ms)}

MemberNodes(ms) == {ms[n][2] : n \in 1..Len(ms)} \cup {ms[n][3] : n \in 1..Len(ms)}

\* One thing at most is wrong with the input: a file is absent, a node is
\* absent from node.py, an element has no force record, or the dataset lacks
\* a component.
Init3D ==
  /\ central_elements = <<>>
  /\ NotRun2D
  /\ Start3D
  /\ \/ /\ \E f \in 1..Len(RequiredFiles) :
             files = {RequiredFiles[g] : g \in 1..Len(RequiredFiles)} \ {RequiredFiles[f]}
        /\ members = <<ElemPool[1]>>
        /\ nodes = [id \in MemberNodes(members) |-> NodeTable[id]]
        /\ ds = [elements |-> MemberIds(members), components |-> Components, vs |-> "ramp"]
        /\ segments = 1
     \/ /\ files = {RequiredFiles[g] : g \in 1..Len(RequiredFiles)}
        /\ members \in MemberTables
        /\ segments \in 1..MaxSegments
        /\ \E v \in ValueSets :
             \/ /\ nodes = [id \in MemberNodes(members) |-> NodeTable[id]]
                /\ ds = [elements |-> MemberIds(members), components |-> Components, vs |-> v]
             \/ /\ nodes = [id \in MemberNodes(members) \ {13} |-> NodeTable[id]]
                /\ 13 \in MemberNodes(members)
                /\ ds = [elements |-> MemberIds(members), components |-> Components, vs |-> v]
             \/ /\ nodes = [id \in MemberNodes(members) |-> NodeTable[id]]
                /\ \E e \in MemberIds(members) :
                     ds = [elements |-> MemberIds(members) \ {e},
                           components |-> Components, vs |-> v]
             \/ /\ nodes = [id \in MemberNodes(members) |-> NodeTable[id]]
                /\ ds = [elements |-> MemberIds(members),
                         components |-> Components \ {"Vy_j"}, vs |-> v]

\* ---------------------------------------------------------------- main
\* A test of the dataset file alone.
FirstMissingNcOnly(fs) == IF RequiredFiles[1] \notin fs THEN 1 ELSE 0

\* Lines 487-490: the first required file that does not exist, 0 if none.
FirstMissing(fs) ==
  IF \E f \in 1..Len(RequiredFiles) : RequiredFiles[f] \notin fs
  THEN CHOOSE f \in 1..Len(RequiredFiles) :
         /\ RequiredFiles[f] \notin fs
         /\ \A g \in 1..(f - 1) : RequiredFiles[g] \in fs
  ELSE 0

\* main, lines 487-492.
CheckFiles ==
  /\ mpc = "check"
  /\ IF FirstMissing(files) # 0
     THEN /\ log' = Append(log, [kind |-> "file_error",
                                 file |-> RequiredFiles[FirstMissing(files)]])
          /\ mpc' = "returned"
     ELSE /\ log' = Append(log, [kind |-> "files_found"])
          /\ mpc' = "bmd"
  /\ UNCHANGED <<inputs, vars2D, result_type, phase, cur, locals3D, exported, shown>>

\* main, lines 498 and 510, and lines 42-56 of the function: the call, and
\* the three files are opened and read; a file that is absent raises.
\* (main passes segments=50, the parameter's default; the model lets the
\* parameter range over 1..MaxSegments.)
Call ==
  /\ mpc \in {"bmd", "sfd"}
  /\ phase = "idle"
  /\ result_type' = (IF mpc = "bmd" THEN "BMD" ELSE "SFD")
  /\ IF \E f \in 1..Len(RequiredFiles) : RequiredFiles[f] \notin files
     THEN /\ phase' = "raised"
          /\ mpc' = "crashed"
     ELSE /\ phase' = "prepass"
          /\ mpc' = mpc
  /\ cur' = 1
  /\ all_values' = <<>>
  /\ max_val' = FZero
  /\ scale' = FZero
  /\ fig' = <<>>
  /\ girder_traces' = <<>>
  /\ shown_in_legend' = {}
  /\ element_count' = 0
  /\ buttons' = <<>>
  /\ UNCHANGED <<inputs, vars2D, exported, shown, log>>

\* Lines 100-110.
comp_i == IF result_type = "BMD" THEN "Mz_i" ELSE "Vy_i"

comp_j == IF result_type = "BMD" THEN "Mz_j" ELSE "Vy_j"

\* Lines 89-93 and 160: element_to_girder.get(eid, 'Other Elements').
element_to_girder(eid) ==
  IF \E n \in 1..5 : \E j \in 1..9 : girders[GirderNames[n]].elements[j] = eid
  THEN GirderNames[CHOOSE n \in 1..5 :
                     \E j \in 1..9 : girders[GirderNames[n]].elements[j] = eid]
  ELSE Other

\* --------------------------------------------------- scale (lines 112-131)
\* Lines 115-121: one pass of the loop over members.keys().
PrePassStep ==
  /\ phase = "prepass"
  /\ cur <= Len(members)
  /\ LET eid == members[cur][1]
     IN all_values' =
          IF SelRaises(ds, eid, comp_i) \/ SelRaises(ds, eid, comp_j)
          THEN all_values
          ELSE all_values \o <<FAbs(Sel(ds, eid, comp_i)), FAbs(Sel(ds, eid, comp_j))>>
  /\ cur' = cur + 1
  /\ UNCHANGED <<inputs, vars2D, mpc, result_type, phase, max_val, scale, fig,
                 girder_traces, shown_in_legend, element_count, buttons,
                 exported, shown, log>>

F1_8 == Dec(18, 1)

F1_0 == FromInt(1)

F3_0 == FromInt(3)

\* Line 123.
MaxVal(values) == IF values # <<>> THEN FMaxSeq(values) ELSE F1_0

\* A scale without the SFD multiplier.
ScaleOfNoTriple(mv, rt) == IF FLt(FZero, mv) THEN FDiv(F1_8, mv) ELSE F1_0

\* Lines 124-128.
ScaleOf(mv, rt) ==
  LET s == IF FLt(FZero, mv) THEN FDiv(F1_8, mv) ELSE F1_0
  IN IF rt = "SFD" THEN FMul(s, F3_0) ELSE s

\* Lines 123-149: the scale, the empty figure, the empty groups.
ScaleCalc ==
  /\ phase = "prepass"
  /\ cur > Len(members)
  /\ max_val' = MaxVal(all_values)
  /\ scale' = ScaleOf(MaxVal(all_values), result_type)
  /\ fig' = <<>>
  /\ girder_traces' = [g \in {GirderNames[n] : n \in 1..5} \cup {Other} |-> <<>>]
  /\ phase' = "centerlines"
  /\ cur' = 1
  /\ UNCHANGED <<inputs, vars2D, mpc, result_type, all_values, shown_in_legend,
                 element_count, buttons, exported, shown, log>>

\* ------------------------------------------- centerlines (lines 155-180)
\* Lines 177-178 (and 271-272, ...): the trace is added and its index recorded.
Record(gt, name, n) == [gt EXCEPT ![name] = Append(@, n)]

\* One pass of the loop; nodes[ni] is outside any try.
CenterlineStep ==
  /\ phase = "centerlines"
  /\ cur <= Len(members)
  /\ LET eid == members[cur][1]
         ni == members[cur][2]
         nj == members[cur][3]
         girder_name == element_to_girder(eid)
     IN IF ni \notin DOMAIN nodes \/ nj \notin DOMAIN nodes
        THEN \* KeyError, caught nowhere: the function and main end
             /\ phase' = "raised"
             /\ mpc' = "crashed"
             /\ UNCHANGED <<cur, fig, girder_traces>>
        ELSE /\ fig' = Append(fig,
                         [kind |-> "centerline", eid |-> eid,
                          x |-> <<nodes[ni][1], nodes[nj][1]>>,
                          y |-> <<nodes[ni][2], nodes[nj][2]>>,
                          z |-> <<nodes[ni][3], nodes[nj][3]>>,
                          name |-> girder_name, legendgroup |-> girder_name,
                          showlegend |-> FALSE])
             /\ girder_traces' = Record(girder_traces, girder_name, Len(fig))
             /\ cur' = cur + 1
             /\ UNCHANGED <<phase, mpc>>
  /\ UNCHANGED <<inputs, vars2D, result_type, all_values, max_val, scale,
                 shown_in_legend, element_count, buttons, exported, shown, log>>

\* Lines 180-189.
CenterlinesDone ==
  /\ phase = "centerlines"
  /\ cur > Len(members)
  /\ phase' = "surfaces"
  /\ cur' = 1
  /\ element_count' = 0
  /\ shown_in_legend' = {}
  /\ UNCHANGED <<inputs, vars2D, mpc, result_type, all_values, max_val, scale, fig,
                 girder_traces, buttons, exported, shown, log>>

\* ---------------------------------------------- surfaces (lines 191-335)
\* Line 206: t = i / segments.
ParamT(i, S) == FDiv(FromInt(i), FromInt(S))

\* Lines 208-212: a + t * (b - a).
Interp(a, b, t) == FAdd(a, FMul(t, FSub(b, a)))

\* Lines 205-217: the values of one pass of the inner loop; yd is the
\* displaced transverse coordinate y0 + v * scale.
Sample(i, S, p1, p2, v_i, v_j, sc) ==
  LET t == ParamT(i, S)
      y0 == Interp(p1[2], p2[2], t)
      v == Interp(v_i, v_j, t)
  IN [x |-> Interp(p1[1], p2[1], t), y0 |-> y0, z |-> Interp(p1[3], p2[3], t),
      v |-> v, yd |-> FAdd(y0, FMul(v, sc))]

\* The passes i = 0..n of the inner loop, in order.
RECURSIVE SamplesTo(_, _, _, _, _, _, _)
SamplesTo(n, S, p1, p2, v_i, v_j, sc) ==
  IF n < 0 THEN <<>>
  ELSE Append(SamplesTo(n - 1, S, p1, p2, v_i, v_j, sc),
              Sample(n, S, p1, p2, v_i, v_j, sc))

\* Lines 214-217: X, Y, Z and C after the loop.
RECURSIVE XList(_)
XList(smp) ==
  IF smp = <<>> THEN <<>> ELSE <<Head(smp).x, Head(smp).x>> \o XList(Tail(smp))

RECURSIVE YList(_)
YList(smp) ==
  IF smp = <<>> THEN <<>> ELSE <<Head(smp).y0, Head(smp).yd>> \o YList(Tail(smp))

RECURSIVE ZList(_)
ZList(smp) ==
  IF smp = <<>> THEN <<>> ELSE <<Head(smp).z, Head(smp).z>> \o ZList(Tail(smp))

\* Intensities that kept the sign of v.
RECURSIVE CListSigned(_)
CListSigned(smp) ==
  IF smp = <<>> THEN <<>>
  ELSE <<Head(smp).v, Head(smp).v>> \o CListSigned(Tail(smp))

\* Line 217.
RECURSIVE CList(_)
CList(smp) ==
  IF smp = <<>> THEN <<>>
  ELSE <<FAbs(Head(smp).v), FAbs(Head(smp).v)>> \o CList(Tail(smp))

\* The values the local v took, pass by pass.
RECURSIVE VList(_)
VList(smp) == IF smp = <<>> THEN <<>> ELSE <<Head(smp).v>> \o VList(Tail(smp))

\* Lines 220-225: I, J and K after the loop over range(segments).
\* Line 223.
RECURSIVE TriangleI(_)
TriangleI(S) ==
  IF S = 0 THEN <<>> ELSE TriangleI(S - 1) \o <<(S - 1) * 2, (S - 1) * 2 + 1>>

\* A second triangle reaching one vertex too far.
RECURSIVE TriangleJSkewed(_)
TriangleJSkewed(S) ==
  IF S = 0 THEN <<>>
  ELSE TriangleJSkewed(S - 1) \o <<(S - 1) * 2 + 1, (S - 1) * 2 + 4>>

\* Line 224.
RECURSIVE TriangleJ(_)
TriangleJ(S) ==
  IF S = 0 THEN <<>> ELSE TriangleJ(S - 1) \o <<(S - 1) * 2 + 1, (S - 1) * 2 + 3>>

\* Line 225.
RECURSIVE TriangleK(_)
TriangleK(S) ==
  IF S = 0 THEN <<>> ELSE TriangleK(S - 1) \o <<(S - 1) * 2 + 2, (S - 1) * 2 + 2>>

\* Lines 195-200 raise: a node or a force label is absent (KeyError).
SurfaceRaises(ni, nj, eid) ==
  \/ ni \notin DOMAIN nodes
  \/ nj \notin DOMAIN nodes
  \/ SelRaises(ds, eid, comp_i)
  \/ SelRaises(ds, eid, comp_j)

\* A legend entry shown for every mesh.
ShowInLegendAlways(girder_name, seen) == TRUE

\* Line 228: show_in_legend = girder_name not in shown_in_legend.
show_in_legend(girder_name, seen) == girder_name \notin seen

\* Lines 233-269: the mesh of one element.
Mesh(eid, girder_name, smp, v_i, v_j) ==
  [kind |-> "mesh", eid |-> eid,
   x |-> XList(smp), y |-> YList(smp), z |-> ZList(smp),
   i |-> TriangleI(segments), j |-> TriangleJ(segments), k |-> TriangleK(segments),
   intensity |-> CList(smp),
   cmin |-> FMinSeq(all_values), cmax |-> FMaxSeq(all_values),
   name |-> girder_name, legendgroup |-> girder_name,
   showlegend |-> show_in_legend(girder_name, shown_in_legend),
   showscale |-> (element_count = 0),
   v_i |-> v_i, v_j |-> v_j, v |-> VList(smp)]

\* Lines 276-327: the three boundary edges of one element.
Edge(which, eid, girder_name, xs, ys, zs) ==
  [kind |-> "edge", which |-> which, eid |-> eid, x |-> xs, y |-> ys, z |-> zs,
   name |-> girder_name, legendgroup |-> girder_name, showlegend |-> FALSE]

Edges(eid, girder_name, p1, p2, v_i, v_j, sc) ==
  LET top1 == FAdd(p1[2], FMul(v_i, sc))
      top2 == FAdd(p2[2], FMul(v_j, sc))
  IN <<Edge("start", eid, girder_name, <<p1[1], p1[1]>>, <<p1[2], top1>>, <<p1[3], p1[3]>>),
       Edge("end", eid, girder_name, <<p2[1], p2[1]>>, <<p2[2], top2>>, <<p2[3], p2[3]>>),
       Edge("top", eid, girder_name, <<p1[1], p2[1]>>, <<top1, top2>>, <<p1[3], p2[3]>>)>>

\* An except branch that left the loop.
AfterSkipStops(n, total) == total + 1

\* Lines 331-333: after the warning, continue with the next element.
AfterSkip(n, total) == n + 1

\* One pass of the loop over members.items(): the whole try block, or the
\* except branch.  (segments = 0 would raise ZeroDivisionError at line 206
\* and every element would be skipped; the model keeps segments >= 1.)
SurfaceStep ==
  /\ phase = "surfaces"
  /\ cur <= Len(members)
  /\ LET eid == members[cur][1]
         ni == members[cur][2]
         nj == members[cur][3]
         girder_name == element_to_girder(eid)
     IN IF SurfaceRaises(ni, nj, eid)
        THEN /\ log' = Append(log, [kind |-> "skipped", eid |-> eid])
             /\ cur' = AfterSkip(cur, Len(members))
             /\ UNCHANGED <<fig, girder_traces, shown_in_legend, element_count>>
        ELSE LET v_i == Sel(ds, eid, comp_i)
                 v_j == Sel(ds, eid, comp_j)
                 smp == SamplesTo(segments, segments, nodes[ni], nodes[nj],
                                  v_i, v_j, scale)
                 n0 == Len(fig)
             IN /\ fig' = fig \o <<Mesh(eid, girder_name, smp, v_i, v_j)>>
                              \o Edges(eid, girder_name, nodes[ni], nodes[nj],
                                       v_i, v_j, scale)
                /\ girder_traces' =
                     Record(Record(Record(Record(girder_traces, girder_name, n0),
                                          girder_name, n0 + 1),
                                   girder_name, n0 + 2),
                            girder_name, n0 + 3)
                /\ shown_in_legend' = shown_in_legend \cup {girder_name}
                /\ element_count' = element_count + 1
                /\ cur' = cur + 1
                /\ UNCHANGED log
  /\ UNCHANGED <<inputs, vars2D, mpc, result_type, phase, all_values, max_val, scale,
                 buttons, exported, shown>>

\* Lines 335-408: the loop is over; the layout is cosmetic.
SurfacesDone ==
  /\ phase = "surfaces"
  /\ cur > Len(members)
  /\ log' = Append(log, [kind |-> "created", n |-> element_count])
  /\ phase' = "buttons"
  /\ UNCHANGED <<inputs, vars2D, mpc, result_type, cur, locals3D, exported, shown>>

\* ------------------------------------------------ buttons (lines 415-472)
\* Lines 428-430: [False] * total_traces with the group's indices set.
Visibility(total, idxs) ==
  [n \in 1..total |-> \E m \in 1..Len(idxs) : idxs[m] = n - 1]

RECURSIVE GirderButtons(_, _, _)
GirderButtons(gt, total, n) ==
  IF n > 5 THEN <<>>
  ELSE (IF GirderNames[n] \in DOMAIN gt
        THEN <<[label |-> GirderNames[n], visible |-> Visibility(total, gt[GirderNames[n]])]>>
        ELSE <<>>)
       \o GirderButtons(gt, total, n + 1)

\* A button added whether or not the group is empty.
TransverseAlways(gt, total) ==
  <<[label |-> "Transverse Only", visible |-> Visibility(total, gt[Other])]>>

\* Lines 439-448.
TransverseButton(gt, total) ==
  IF Other \in DOMAIN gt /\ gt[Other] # <<>>
  THEN <<[label |-> "Transverse Only", visible |-> Visibility(total, gt[Other])]>>
  ELSE <<>>

\* Lines 415-472: the buttons, and the figure is returned.
Buttons ==
  /\ phase = "buttons"
  /\ LET total_traces == Len(fig)
     IN buttons' = <<[label |-> "All Girders",
                      visible |-> [n \in 1..total_traces |-> TRUE]]>>
                   \o GirderButtons(girder_traces, total_traces, 1)
                   \o TransverseButton(girder_traces, total_traces)
  /\ phase' = "returned"
  /\ UNCHANGED <<inputs, vars2D, mpc, result_type, cur, all_values, max_val, scale, fig,
                 girder_traces, shown_in_legend, element_count, exported, shown, log>>

\* main, lines 500-504 and 512-516: write_html and show.
Output ==
  /\ mpc \in {"bmd", "sfd"}
  /\ phase = "returned"
  /\ exported' = exported \cup
       {IF mpc = "bmd" THEN "Enhanced_BMD_3D.html" ELSE "Enhanced_SFD_3D.html"}
  /\ shown' = Append(shown, result_type)
  /\ mpc' = (IF mpc = "bmd" THEN "sfd" ELSE "done")
  /\ phase' = "idle"
  /\ UNCHANGED <<inputs, vars2D, result_type, cur, locals3D, log>>

Next3D ==
  \/ CheckFiles
  \/ Call
  \/ PrePassStep
  \/ ScaleCalc
  \/ CenterlineStep
  \/ CenterlinesDone
  \/ SurfaceStep
  \/ SurfacesDone
  \/ Buttons
  \/ Output

Spec3D == Init3D /\ [][Next3D]_vars

(***************************************************************************)
(* Claims about TASK_1.py, checked under Spec2D.                           *)
(***************************************************************************)
NodeX(id) == nodes[id][1]

\* The force lookup of the chain's k-th element raises.
ExtractRaisesAt(j) ==
  \E c \in {"Mz_i", "Mz_j", "Vy_i", "Vy_j"} :
    central_elements[j] \notin ds.elements \/ c \notin ds.components

\* The elements warned about so far, in the order printed.
RECURSIVE WarnedIn(_)
WarnedIn(lg) ==
  IF lg = <<>> THEN <<>>
  ELSE IF Head(lg).kind = "warning" THEN <<Head(lg).ele>> \o WarnedIn(Tail(lg))
  ELSE WarnedIn(Tail(lg))

WarnedElements == WarnedIn(console)

\* The elements at places 2..n whose node_i is not the node_j of the one before.
RECURSIVE MismatchedUpTo(_)
MismatchedUpTo(n) ==
  IF n <= 1 THEN <<>>
  ELSE MismatchedUpTo(n - 1)
         \o (IF members[n][2] # members[n - 1][3] THEN <<central_elements[n]>> ELSE <<>>)

ChainLen == Len(central_elements)

\* C1: once the extraction loop is over, positions, bending_moments and
\* shear_forces each hold N + 1 entries: entry 0 is the first element's
\* node_i (x, Mz_i, Vy_i) and entry k the k-th element's node_j (x, Mz_j,
\* Vy_j); the chain 15, 24, 33, 42 over nodes 3, 13, 18, 23, 28 gives the
\* positions 0, 5, 10, 15, 20.
C1_ProfileAligned ==
  pc \in {"plot", "done"} =>
    /\ Len(profile.positions) = ChainLen + 1
    /\ Len(profile.bending_moments) = ChainLen + 1
    /\ Len(profile.shear_forces) = ChainLen + 1
    /\ LET first == central_elements[1]
       IN /\ profile.positions[1] = NodeX(MemberOf(members, first)[1])
          /\ profile.bending_moments[1] = Sel(ds, first, "Mz_i")
          /\ profile.shear_forces[1] = Sel(ds, first, "Vy_i")
    /\ \A j \in 1..ChainLen :
         LET ele == central_elements[j]
         IN /\ profile.positions[j + 1] = NodeX(MemberOf(members, ele)[2])
            /\ profile.bending_moments[j + 1] = Sel(ds, ele, "Mz_j")
            /\ profile.shear_forces[j + 1] = Sel(ds, ele, "Vy_j")
    /\ (members = <<<<15, 3, 13>>, <<24, 13, 18>>, <<33, 18, 23>>, <<42, 23, 28>>>>
        => profile.positions =
             <<FromInt(0), FromInt(5), FromInt(10), FromInt(15), FromInt(20)>>)

C1_Witness ==
  /\ pc = "done"
  /\ members = <<<<15, 3, 13>>, <<24, 13, 18>>, <<33, 18, 23>>, <<42, 23, 28>>>>
  /\ profile.positions = <<FromInt(0), FromInt(5), FromInt(10), FromInt(15), FromInt(20)>>

\* C7: a missing force component of a chain element is fatal in TASK_1.py:
\* the run ends at that element with the error and the available component
\* names printed last, nothing is appended for it, and neither the arrays
\* nor the plot are made; the arrays exist only if no element's lookup failed.
C7_MissingComponentFatal ==
  /\ pc = "aborted" =>
       /\ ExtractRaisesAt(idx)
       /\ \A j \in 1..(idx - 1) : ~ExtractRaisesAt(j)
       /\ Len(console) >= 2
       /\ console[Len(console) - 1] = [kind |-> "error", ele |-> central_elements[idx]]
       /\ console[Len(console)] = [kind |-> "components", names |-> ds.components]
       /\ Len(positions) = (IF idx = 1 THEN 0 ELSE idx)
       /\ Len(bending_moments) = Len(positions)
       /\ Len(shear_forces) = Len(positions)
       /\ ~profile.made
       /\ ~plotted
  /\ (profile.made \/ plotted) => \A j \in 1..ChainLen : ~ExtractRaisesAt(j)
  /\ pc = "extract" => \A j \in 1..(idx - 1) : ~ExtractRaisesAt(j)

C7_Witness ==
  /\ pc = "aborted"
  /\ idx = 3
  /\ "Vy_j" \in ds.components
  /\ ~profile.made

\* C9: the continuity check compares element[k].node_j with
\* element[k+1].node_i for every consecutive pair; the warnings printed are
\* exactly those of the elements k+1 where the two differ, in chain order;
\* the check always ends with "verified", and a run whose force records are
\* all present then extracts every element whatever the number of warnings.
C9_ContinuityWarnOnly ==
  /\ pc = "continuity" => WarnedElements = MismatchedUpTo(idx - 1)
  /\ pc # "continuity" =>
       /\ WarnedElements = MismatchedUpTo(ChainLen)
       /\ \E n \in 1..Len(console) : console[n] = [kind |-> "verified"]
  /\ pc = "aborted" => ExtractRaisesAt(idx)
  /\ pc \in {"plot", "done"} => Len(profile.positions) = ChainLen + 1

C9_Witness ==
  /\ pc = "done"
  /\ Len(WarnedElements) >= 2
  /\ Len(profile.positions) = ChainLen + 1

(***************************************************************************)
(* Claims about 3D_task_2.py, checked under Spec3D.                        *)
(***************************************************************************)
AllFiles == {RequiredFiles[g] : g \in 1..Len(RequiredFiles)}

MeshIdx == {n \in 1..Len(fig) : fig[n].kind = "mesh"}

HasMesh(eid) == \E n \in MeshIdx : fig[n].eid = eid

MeshOf(eid) == fig[CHOOSE n \in MeshIdx : fig[n].eid = eid]

IsEdge(n, eid, which) ==
  fig[n].kind = "edge" /\ fig[n].eid = eid /\ fig[n].which = which

HasEdge(eid, which) == \E n \in 1..Len(fig) : IsEdge(n, eid, which)

EdgeOf(eid, which) == fig[CHOOSE n \in 1..Len(fig) : IsEdge(n, eid, which)]

HasRibbon(eid) ==
  HasMesh(eid) /\ HasEdge(eid, "start") /\ HasEdge(eid, "end") /\ HasEdge(eid, "top")

RunEdges(eid) == <<EdgeOf(eid, "start"), EdgeOf(eid, "end"), EdgeOf(eid, "top")>>

MemberRow(eid) == members[CHOOSE n \in 1..Len(members) : members[n][1] = eid]

SkipLogged(eid) ==
  \E n \in 1..Len(log) : log[n].kind = "skipped" /\ log[n].eid = eid

\* The scale has been computed by the call in progress.
AfterScale == phase \in {"centerlines", "surfaces", "buttons", "returned"}

FigureDone == phase \in {"buttons", "returned"}

HasNonZero == all_values # <<>> /\ FLt(FZero, FMaxSeq(all_values))

Target(rt) == IF rt = "SFD" THEN FMul(F1_8, F3_0) ELSE F1_8

Tolerance == Dec(1, 9)

\* C2, what the code computes: once the pre-pass is over, with m the largest
\* collected |end value|: if m > 0 the scale is the float quotient 1.8 / m
\* for BMD and three times that for SFD, so that scale * m is 1.8 (BMD) or
\* 5.4 (SFD) up to rounding; if nothing was collected the scale is 1.8 (BMD)
\* or 5.4 (SFD); if everything collected is zero it is 1.0 (BMD) or 3.0 (SFD).
C2_ScaleByResultType ==
  AfterScale =>
    /\ HasNonZero =>
         LET m == FMaxSeq(all_values)
         IN /\ scale = (IF result_type = "SFD" THEN FMul(FDiv(F1_8, m), F3_0)
                        ELSE FDiv(F1_8, m))
            /\ FLe(FAbs(FSub(FMul(scale, m), Target(result_type))),
                   FMul(Tolerance, Target(result_type)))
    /\ all_values = <<>> => scale = Target(result_type)
    /\ (all_values # <<>> /\ ~HasNonZero) =>
         scale = (IF result_type = "SFD" THEN F3_0 ELSE F1_0)

\* C2: an SFD call whose pre-pass collected a non-zero value.
C2_Witness ==
  /\ phase = "surfaces"
  /\ result_type = "SFD"
  /\ HasNonZero
  /\ scale # FDiv(F1_8, FMaxSeq(all_values))

\* C2 as stated: scale * max_abs_value = 1.8 when a non-zero end value
\* exists, and scale = 1.0 when the value set is empty or all zero.  The
\* code breaks the second half: a pre-pass that collected nothing leaves
\* max_val = 1.0 and the scale is 1.8 (BMD) or 5.4 (SFD).
C2_Original ==
  AfterScale =>
    /\ HasNonZero => FMul(scale, FMaxSeq(all_values)) = F1_8
    /\ ~HasNonZero => scale = F1_0

\* v is non-decreasing (up = TRUE) or non-increasing over its entries.
Monotone(v, up) ==
  \A n \in 1..(Len(v) - 1) : IF up THEN FLe(v[n], v[n + 1]) ELSE FLe(v[n + 1], v[n])

\* C3 as stated: for every ribbon, the sample at i = 0 is exactly the start
\* node and the i-end value, the sample at i = S is exactly the end node and
\* the j-end value, the samples of v are monotonic, and end values 100 and
\* -50 with S = 2 give the samples 100, 25, -50.
C3_InterpolationExact ==
  \A n \in MeshIdx :
    LET m == fig[n]
        p1 == nodes[MemberRow(m.eid)[2]]
        p2 == nodes[MemberRow(m.eid)[3]]
        last == 2 * segments + 1
    IN /\ m.x[1] = p1[1] /\ m.y[1] = p1[2] /\ m.z[1] = p1[3]
       /\ m.v[1] = m.v_i
       /\ m.x[last] = p2[1] /\ m.y[last] = p2[2] /\ m.z[last] = p2[3]
       /\ m.v[segments + 1] = m.v_j
       /\ Monotone(m.v, FLe(m.v_i, m.v_j))
       /\ (m.v_i = FromInt(100) /\ m.v_j = FromInt(-50) /\ segments = 2) =>
            m.v = <<FromInt(100), FromInt(25), FromInt(-50)>>

\* C3, the part the code delivers: exact at i = 0, monotonic samples, and
\* the example; at i = S the sample is within rounding of the end value.
C3_StartExactMonotone ==
  \A n \in MeshIdx :
    LET m == fig[n]
        p1 == nodes[MemberRow(m.eid)[2]]
    IN /\ m.x[1] = p1[1] /\ m.y[1] = p1[2] /\ m.z[1] = p1[3]
       /\ m.v[1] = m.v_i
       /\ Monotone(m.v, FLe(m.v_i, m.v_j))
       /\ FLe(FAbs(FSub(m.v[segments + 1], m.v_j)), FMul(Tolerance, FAbs(m.v_j)))
       /\ (m.v_i = FromInt(100) /\ m.v_j = FromInt(-50) /\ segments = 2) =>
            m.v = <<FromInt(100), FromInt(25), FromInt(-50)>>

\* C4: every mesh has 2(S+1) vertices in x, y, z and intensity, ordered as
\* undisplaced/displaced pairs, and 2S triangles in i, j, k; every index is
\* in 0..2S+1 and the triangles of segment s are (2s, 2s+1, 2s+2) and
\* (2s+1, 2s+3, 2s+2).
C4_RibbonMeshShape ==
  \A n \in MeshIdx :
    LET m == fig[n]
        S == segments
    IN /\ Len(m.x) = 2 * (S + 1) /\ Len(m.y) = 2 * (S + 1)
       /\ Len(m.z) = 2 * (S + 1) /\ Len(m.intensity) = 2 * (S + 1)
       /\ Len(m.i) = 2 * S /\ Len(m.j) = 2 * S /\ Len(m.k) = 2 * S
       /\ \A q \in 1..(2 * S) :
            m.i[q] \in 0..(2 * S + 1) /\ m.j[q] \in 0..(2 * S + 1)
            /\ m.k[q] \in 0..(2 * S + 1)
       /\ \A s \in 0..(S - 1) :
            /\ <<m.i[2 * s + 1], m.j[2 * s + 1], m.k[2 * s + 1]>>
                 = <<2 * s, 2 * s + 1, 2 * s + 2>>
            /\ <<m.i[2 * s + 2], m.j[2 * s + 2], m.k[2 * s + 2]>>
                 = <<2 * s + 1, 2 * s + 3, 2 * s + 2>>
       /\ \A q \in 0..S :
            /\ m.x[2 * q + 1] = m.x[2 * q + 2]
            /\ m.z[2 * q + 1] = m.z[2 * q + 2]
            /\ m.y[2 * q + 2] = FAdd(m.y[2 * q + 1], FMul(m.v[q + 1], scale))
            /\ m.intensity[2 * q + 1] = FAbs(m.v[q + 1])
            /\ m.intensity[2 * q + 2] = FAbs(m.v[q + 1])

\* Two ribbons of two segments each are in the figure.
C4_Witness ==
  /\ phase = "returned"
  /\ segments = 2
  /\ Cardinality(MeshIdx) = 2
  /\ \E n \in MeshIdx : fig[n].y[6] # fig[n].y[5]

\* The |end values| of the first n members when every record is present.
RECURSIVE ValuesOfAll(_)
ValuesOfAll(n) ==
  IF n = 0 THEN <<>>
  ELSE ValuesOfAll(n - 1) \o <<FAbs(Sel(ds, members[n][1], comp_i)),
                               FAbs(Sel(ds, members[n][1], comp_j))>>

\* max_val and scale of the run in which every force record is present.
FullMax == MaxVal(ValuesOfAll(Len(members)))

FullScale == ScaleOf(FullMax, result_type)

\* What the run with scale sc emits for element eid.
RefSamples(eid, sc) ==
  SamplesTo(segments, segments, nodes[MemberRow(eid)[2]], nodes[MemberRow(eid)[3]],
            Sel(ds, eid, comp_i), Sel(ds, eid, comp_j), sc)

RefGeom(eid, sc) ==
  LET smp == RefSamples(eid, sc)
  IN [x |-> XList(smp), y |-> YList(smp), z |-> ZList(smp), intensity |-> CList(smp)]

RefEdges(eid, sc) ==
  Edges(eid, element_to_girder(eid), nodes[MemberRow(eid)[2]], nodes[MemberRow(eid)[3]],
        Sel(ds, eid, comp_i), Sel(ds, eid, comp_j), sc)

MeshGeom(m) == [x |-> m.x, y |-> m.y, z |-> m.z, intensity |-> m.intensity]

NoRecord == MemberIds(members) \ ds.elements

\* Nothing is wrong with the input but, at most, one missing force record.
AtMostOneRecordMissing ==
  /\ files = AllFiles
  /\ MemberNodes(members) \subseteq DOMAIN nodes
  /\ ds.components = Components
  /\ Cardinality(NoRecord) <= 1

\* C5 (as the code has it): compared with the run in which every record is
\* present, the run in which one element's record is missing emits, for
\* every other element, a ribbon with the same x, z, undisplaced y and
\* intensities and edges with the same x, z and base points; the displaced
\* y (value * scale) is computed with the scale of the remaining records,
\* and the whole ribbon is identical when the largest |end value| is the same.
C5_SkipKeepsUndisplaced ==
  (FigureDone /\ AtMostOneRecordMissing) =>
    \A n \in 1..Len(members) :
      LET f == members[n][1]
      IN f \in ds.elements =>
           /\ HasRibbon(f)
           /\ LET m == MeshOf(f)
                  ref == RefGeom(f, FullScale)
                  re == RefEdges(f, FullScale)
              IN /\ m.x = ref.x /\ m.z = ref.z /\ m.intensity = ref.intensity
                 /\ \A q \in 0..segments : m.y[2 * q + 1] = ref.y[2 * q + 1]
                 /\ MeshGeom(m) = RefGeom(f, scale)
                 /\ RunEdges(f) = RefEdges(f, scale)
                 /\ \A w \in 1..3 :
                      /\ RunEdges(f)[w].x = re[w].x
                      /\ RunEdges(f)[w].z = re[w].z
                 /\ \A w \in 1..2 : RunEdges(f)[w].y[1] = re[w].y[1]
                 /\ max_val = FullMax =>
                      MeshGeom(m) = ref /\ RunEdges(f) = re

\* The first member has no record, the second got its ribbon, and the
\* largest |end value| is not that of the full dataset.
C5_Witness ==
  /\ phase = "returned"
  /\ AtMostOneRecordMissing
  /\ Len(members) = 2
  /\ members[1][1] \notin ds.elements
  /\ HasRibbon(members[2][1])
  /\ max_val # FullMax

\* C5 as stated: the ribbon and the edges of every element other than the
\* one without a record are those of the run in which the record is present.
C5_Original ==
  (FigureDone /\ AtMostOneRecordMissing) =>
    \A n \in 1..Len(members) :
      LET f == members[n][1]
      IN f \in ds.elements =>
           /\ HasRibbon(f)
           /\ MeshGeom(MeshOf(f)) = RefGeom(f, FullScale)
           /\ RunEdges(f) = RefEdges(f, FullScale)

\* The processing of the member fails: no record, or a node is absent.
BadElement(n) ==
  \/ members[n][2] \notin DOMAIN nodes
  \/ members[n][3] \notin DOMAIN nodes
  \/ members[n][1] \notin ds.elements
  \/ comp_i \notin ds.components
  \/ comp_j \notin ds.components

\* C6 as stated: the function never aborts because of one bad element; it
\* returns a figure in which every bad element was logged and skipped and
\* every other element has its ribbon and three edges.
C6_BadElementOnlySkipped ==
  /\ files = AllFiles => phase # "raised"
  /\ FigureDone =>
       \A n \in 1..Len(members) :
         IF BadElement(n) THEN SkipLogged(members[n][1]) /\ ~HasMesh(members[n][1])
         ELSE HasRibbon(members[n][1])

\* C6, the part the code delivers: an element without a force record is
\* logged and skipped, and every other element gets its ribbon.
C6_MissingRecordSkipped ==
  (FigureDone /\ MemberNodes(members) \subseteq DOMAIN nodes) =>
    \A n \in 1..Len(members) :
      IF BadElement(n) THEN SkipLogged(members[n][1]) /\ ~HasMesh(members[n][1])
      ELSE HasRibbon(members[n][1])

\* C8: if one of the three files is absent, main prints an error naming an
\* absent file and ends; the function is never called, nothing is exported
\* and nothing is shown.
C8_MissingFileFatal ==
  files # AllFiles =>
    /\ mpc \in {"check", "returned"}
    /\ phase = "idle"
    /\ fig = <<>>
    /\ exported = {}
    /\ shown = <<>>
    /\ mpc = "returned" =>
         /\ Len(log) = 1
         /\ log[1].kind = "file_error"
         /\ log[1].file \in AllFiles \ files

\* main has ended on the absence of element.py, the last file checked.
C8_Witness ==
  /\ mpc = "returned"
  /\ "./element.py" \notin files
  /\ Len(log) = 1

HasButton(label) == \E n \in 1..Len(buttons) : buttons[n].label = label

ButtonOf(label) == buttons[CHOOSE n \in 1..Len(buttons) : buttons[n].label = label]

InGroup(ix, g) == \E q \in 1..Len(girder_traces[g]) : girder_traces[g][q] = ix

\* The button's list has an entry per trace, True exactly at the group's.
SelectsGroup(label, g) ==
  /\ Len(ButtonOf(label).visible) = Len(fig)
  /\ \A ix \in 0..(Len(fig) - 1) : ButtonOf(label).visible[ix + 1] <=> InGroup(ix, g)

\* Every trace index is recorded once, in the group of its element.
GroupsPartition ==
  /\ \A ix \in 0..(Len(fig) - 1) :
       \A g \in DOMAIN girder_traces :
         InGroup(ix, g) <=> g = element_to_girder(fig[ix + 1].eid)
  /\ \A g \in DOMAIN girder_traces :
       \A q \in 1..Len(girder_traces[g]) :
         /\ girder_traces[g][q] \in 0..(Len(fig) - 1)
         /\ \A r \in 1..Len(girder_traces[g]) :
              girder_traces[g][q] = girder_traces[g][r] => q = r

GirderControls ==
  /\ HasButton("All Girders")
  /\ Len(ButtonOf("All Girders").visible) = Len(fig)
  /\ \A ix \in 1..Len(fig) : ButtonOf("All Girders").visible[ix]
  /\ \A n \in 1..5 : HasButton(GirderNames[n]) /\ SelectsGroup(GirderNames[n], GirderNames[n])
  /\ \A n \in 1..Len(buttons) : \A q \in 1..Len(buttons) :
       buttons[n].label = buttons[q].label => n = q

\* C10 (as the code has it): the lists of all controls have total_traces
\* entries; 'All Girders' sets all of them; each girder's button sets
\* exactly its group's indices; the groups partition the trace indices;
\* there is a control for 'All Girders' and for each of the five girders,
\* and 'Transverse Only' exists exactly when some trace belongs to 'Other
\* Elements', setting exactly that group's indices.
C10_ControlsSelectGroups ==
  phase = "returned" =>
    /\ GirderControls
    /\ GroupsPartition
    /\ HasButton("Transverse Only") <=> girder_traces[Other] # <<>>
    /\ HasButton("Transverse Only") => SelectsGroup("Transverse Only", Other)
    /\ Len(buttons) = (IF girder_traces[Other] # <<>> THEN 7 ELSE 6)

\* A figure of girder elements only: six controls.
C10_Witness ==
  /\ phase = "returned"
  /\ Len(fig) = 10
  /\ girder_traces[Other] = <<>>
  /\ Len(buttons) = 6
  /\ girder_traces["Girder 3"] # <<>>
  /\ girder_traces["Girder 1"] # <<>>

\* C10 as stated: the same with a 'Transverse Only' control in every figure.
C10_Original ==
  phase = "returned" =>
    /\ GirderControls
    /\ GroupsPartition
    /\ HasButton("Transverse Only")
    /\ SelectsGroup("Transverse Only", Other)
    /\ Len(buttons) = 7

GroupNames == {GirderNames[n] : n \in 1..5} \cup {Other}

\* The traces of the group that show a legend entry.
LegendShown(g) ==
  {n \in 1..Len(fig) : fig[n].legendgroup = g /\ fig[n].showlegend}

\* The places in members of the group's elements that got a mesh.
ProcessedOf(g) ==
  {n \in 1..Len(members) :
     element_to_girder(members[n][1]) = g /\ HasMesh(members[n][1])}

FirstOf(places) == CHOOSE n \in places : \A q \in places : n <= q

\* C11: in the finished figure every trace carries the group of its element
\* as name and legendgroup; a group none of whose elements was processed
\* shows no legend entry, and any other group shows exactly one, on the mesh
\* of its first processed element, whether or not earlier elements of the
\* group were skipped.
C11_LegendOncePerGroup ==
  FigureDone =>
    /\ \A n \in 1..Len(fig) :
         /\ fig[n].legendgroup = element_to_girder(fig[n].eid)
         /\ fig[n].name = element_to_girder(fig[n].eid)
    /\ \A g \in GroupNames :
         IF ProcessedOf(g) = {} THEN LegendShown(g) = {}
         ELSE /\ Cardinality(LegendShown(g)) = 1
              /\ \A n \in LegendShown(g) :
                   /\ fig[n].kind = "mesh"
                   /\ fig[n].eid = members[FirstOf(ProcessedOf(g))][1]

\* Two elements of Girder 3: the first was skipped, the second processed and
\* its mesh shows the legend entry.
C11_Witness ==
  /\ phase = "returned"
  /\ Len(members) = 2
  /\ element_to_girder(members[1][1]) = "Girder 3"
  /\ element_to_girder(members[2][1]) = "Girder 3"
  /\ SkipLogged(members[1][1])
  /\ HasMesh(members[2][1])
  /\ MeshOf(members[2][1]).showlegend

\* Two elements of one group were both processed.
C11_WitnessBoth ==
  /\ phase = "returned"
  /\ Len(members) = 2
  /\ element_to_girder(members[1][1]) = element_to_girder(members[2][1])
  /\ HasMesh(members[1][1])
  /\ HasMesh(members[2][1])
  /\ ~MeshOf(members[2][1]).showlegend

\* The places in members of the elements whose end values the pre-pass
\* collected.
Collected ==
  {n \in 1..Len(members) :
     ~SelRaises(ds, members[n][1], comp_i) /\ ~SelRaises(ds, members[n][1], comp_j)}

EndValues ==
  {FAbs(Sel(ds, members[n][1], comp_i)) : n \in Collected}
    \cup {FAbs(Sel(ds, members[n][1], comp_j)) : n \in Collected}

IsLeast(c) == c \in EndValues /\ \A w \in EndValues : FLe(c, w)

IsGreatest(c) == c \in EndValues /\ \A w \in EndValues : FLe(w, c)

\* Neither end value is below zero while the other is above.
SameSign(a, b) ==
  /\ ~(FLt(a, FZero) /\ FLt(FZero, b))
  /\ ~(FLt(b, FZero) /\ FLt(FZero, a))

\* C12 (as the code has it): every mesh has cmin = the least and cmax = the
\* greatest absolute end value collected by the pre-pass; every intensity
\* is |v(t)| of its sample and is at most cmax up to rounding; it is at
\* least cmin, up to rounding, when the element's end values do not differ
\* in sign.
C12_SharedColourRange ==
  \A n \in MeshIdx :
    LET m == fig[n]
    IN /\ IsLeast(m.cmin)
       /\ IsGreatest(m.cmax)
       /\ \A q \in 0..segments :
            /\ m.intensity[2 * q + 1] = FAbs(m.v[q + 1])
            /\ m.intensity[2 * q + 2] = FAbs(m.v[q + 1])
       /\ \A q \in 1..Len(m.intensity) :
            /\ FLe(m.intensity[q], FMul(m.cmax, FAdd(F1_0, Tolerance)))
            /\ SameSign(m.v_i, m.v_j) =>
                 FLe(FMul(m.cmin, FSub(F1_0, Tolerance)), m.intensity[q])

\* A ribbon between end values of opposite sign whose middle sample is
\* below cmin.
C12_Witness ==
  /\ phase = "returned"
  /\ segments = 2
  /\ \E n \in MeshIdx :
       /\ FLt(FZero, fig[n].v_i)
       /\ FLt(fig[n].v_j, FZero)
       /\ FLt(fig[n].intensity[3], fig[n].cmin)

\* C12 as stated: cmin and cmax are the least and the greatest collected
\* absolute end value and every intensity of every mesh is in [cmin, cmax].
C12_Original ==
  \A n \in MeshIdx :
    LET m == fig[n]
    IN /\ IsLeast(m.cmin)
       /\ IsGreatest(m.cmax)
       /\ \A q \in 1..Len(m.intensity) :
            FLe(m.cmin, m.intensity[q]) /\ FLe(m.intensity[q], m.cmax)

====
